---- MODULE Spec2Model ----
(***************************************************************************)
(* A model of gcswheel.py: calculate() builds the five scale series of a   *)
(* rotary gear/speed/cadence slide rule, and the main program renders the  *)
(* result into four PDF variants.                                          *)
(*                                                                         *)
(* Arithmetic.  Every number calculate() handles has one of the forms      *)
(*     a rational            n/d                                           *)
(*     a logarithm           ln(n/d)                                       *)
(*     a modulus             span*(pi/1000) / ln(bn/bd)                    *)
(*     an angle              M*ln(n/d) + k*(pi/1000),  M a modulus         *)
(* and is carried here exactly, as a record of integers.  log() is the     *)
(* real logarithm on rationals: it satisfies ln(a) - ln(b) = ln(a/b) and   *)
(* nothing else.  Floating-point rounding is not modelled: an equality in  *)
(* this module is an equality of real numbers.                             *)
(***************************************************************************)
EXTENDS Integers, Sequences, FiniteSets, TLC

VARIABLES
    pc,        \* position of the program
    i,         \* loop variable of the generation loops, index of the for loops
    data,      \* the dictionary built by calculate()
    gimod, gimin, crmin, cgmin, cgmod, kmmin, cadmin,   \* locals of calculate()
    cogoft, gearoft,                                    \* reference indices
    calls,     \* number of calls of calculate() so far
    k,         \* number of the output variant to write next (1..4)
    files,     \* the files written so far
    results,   \* results returned by earlier calls of calculate()
    produced,  \* names of the values whose computation is complete
    reads      \* log of the values read while computing each axis

locals == <<gimod, gimin, crmin, cgmin, cgmod, kmmin, cadmin>>
vars == <<pc, i, data, gimod, gimin, crmin, cgmin, cgmod, kmmin, cadmin,
          cogoft, gearoft, calls, k, files, results, produced, reads>>

----------------------------------------------------------------------------
(* Exact arithmetic *)

RECURSIVE GCD(_, _)
GCD(a, b) == IF b = 0 THEN a ELSE GCD(b, a % b)

\* Python's None
None == [t |-> "None"]

\* the rational n/d (n, d > 0), in lowest terms
Num(n, d) == LET g == GCD(n, d) IN [t |-> "num", n |-> n \div g, d |-> d \div g]

NumMul(a, b) == Num(a.n * b.n, a.d * b.d)
NumDiv(a, b) == Num(a.n * b.d, a.d * b.n)

\* math.log of a positive rational
log(x) == [t |-> "ln", n |-> x.n, d |-> x.d]

\* difference of two logarithms: ln(a) - ln(b) = ln(a/b)
LogSub(a, b) == LET q == Num(a.n * b.d, a.d * b.n) IN [t |-> "ln", n |-> q.n, d |-> q.d]

NoMod == [span |-> 0, bn |-> 1, bd |-> 1]

\* the angle m*ln(n/d) + kk*pi/1000; an angle with no logarithmic part
\* carries no modulus, so that 0.0 has one representation
Ang(m, n, d, kk) ==
    LET q == Num(n, d)
    IN  [t |-> "ang", m |-> IF q.n = q.d THEN NoMod ELSE m, n |-> q.n, d |-> q.d, k |-> kk]

\* the float 0.0
Zero == Ang(NoMod, 1, 1, 0)

\* (n/d) * pi, n/d a multiple of 1/1000
PiTimes(n, d) == Ang(NoMod, 1, 1, (1000 * n) \div d)

\* a multiple of pi divided by a logarithm: the modulus, kept with base > 1
ModDiv(rad, lg) ==
    IF lg.n > lg.d THEN [span |-> rad.k, bn |-> lg.n, bd |-> lg.d]
    ELSE [span |-> 0 - rad.k, bn |-> lg.d, bd |-> lg.n]

\* -1.0 * modulus
ModNeg(m) == [m EXCEPT !.span = 0 - m.span]

\* modulus * logarithm: (-M)*ln(q) is kept as M*ln(1/q)
Scale(m, lg) ==
    IF m.span >= 0 THEN Ang(m, lg.n, lg.d, 0)
    ELSE Ang(ModNeg(m), lg.d, lg.n, 0)

ModOf(a, b) == IF a.m = NoMod THEN b.m ELSE a.m

AngAdd(a, b) == Ang(ModOf(a, b), a.n * b.n, a.d * b.d, a.k + b.k)
AngSub(a, b) == Ang(ModOf(a, b), a.n * b.d, a.d * b.n, a.k - b.k)

----------------------------------------------------------------------------
(* Program constants *)

GiFirst == 68
GiLast == 112
GiDiv == 27
CrFirst == 42
CrLast == 52
CgFirst == 18
CgLast == 12
KmFirst == 35
KmLast == 55
CdFirst == 80
CdLast == 150
CdDiv == 60
GiExcluded == 60
\* the sixth entry taken for index 6
CogoftOneBased == 5 + 1
COGOFT == 5
GEAROFT == 3

\* TYRE_C = 2.090
TYRE_C == Num(2090, 1000)

\* 3.6 * TYRE_C
KmDiv == NumMul(Num(36, 10), TYRE_C)

\* the rows appended by the five generation loops:
\* [orig val, corrected val, logval, scaled log val, rot pos]
GiRow(n) ==
    LET nf == NumDiv(Num(n, 1), Num(GiDiv, 1))
    IN  [raw |-> n, corr |-> nf, lg |-> log(nf), rad |-> Zero, pos |-> Zero]

TeethRow(n) == [raw |-> n, corr |-> None, lg |-> log(Num(n, 1)), rad |-> None, pos |-> Zero]

KmRow(n) ==
    LET kf == NumDiv(Num(n, 1), KmDiv)
    IN  [raw |-> n, corr |-> kf, lg |-> log(kf), rad |-> None, pos |-> Zero]

CdRow(n) ==
    LET df == NumDiv(Num(n, 1), Num(CdDiv, 1))
    IN  [raw |-> n, corr |-> df, lg |-> log(df), rad |-> None, pos |-> Zero]

\* the descending loop stopping one entry early
CgMoreStrict(n) == n > 12

\* the loop conditions of the generation loops
GiMore(n) == n <= GiLast
CrMore(n) == n <= CrLast
CgMore(n) == n >= CgLast
KmMore(n) == n <= KmLast
CdMore(n) == n <= CdLast

\* data = {'gi': [], 'cr': [], 'cg': [], 'km': [], 'cd': []}
EmptyData ==
    [gi |-> <<>>, cr |-> <<>>, cg |-> <<>>, km |-> <<>>, cd |-> <<>>,
     refpt |-> None, sprefpt |-> None]

\* a dictionary kept from one invocation to the next
StaleData(old) == old

\* the dictionary calculate() starts from
FreshData(old) == EmptyData

----------------------------------------------------------------------------
(* Named values and the log of their use *)

\* the value a name stands for in the current state
Val(name) ==
    CASE name = "gimod" -> gimod
      [] name = "gimin" -> gimin
      [] name = "gi.rad" -> data.gi[1].rad
      [] name = "crmin" -> crmin
      [] name = "cr.rad" -> data.cr[cogoft + 1].rad
      [] name = "cr.pos" -> data.cr[cogoft + 1].pos
      [] name = "refpt" -> data.refpt
      [] name = "cgmin" -> cgmin
      [] name = "cgmod" -> cgmod
      [] name = "cg.pos" -> data.cg[gearoft + 1].pos
      [] name = "sprefpt" -> data.sprefpt
      [] name = "kmmin" -> kmmin
      [] name = "cadmin" -> cadmin

\* the axis a named value belongs to; the modulus is shared
Owner(name) ==
    CASE name = "gimod" -> "shared"
      [] name \in {"gimin", "gi.rad", "gi.pos"} -> "gi"
      [] name \in {"crmin", "cr.rad", "cr.pos", "refpt"} -> "cr"
      [] name \in {"cgmin", "cgmod", "cg.rad", "cg.pos", "sprefpt"} -> "cg"
      [] name \in {"kmmin", "km.rad", "km.pos"} -> "km"
      [] name \in {"cadmin", "cd.rad", "cd.pos"} -> "cd"

Range(s) == {s[j] : j \in DOMAIN s}

\* the log entries of one statement of axis `axis` reading `names`
Log(axis, names) == {[axis |-> axis, src |-> s, ready |-> s \in produced] : s \in names}

\* the operands of line 107 exchanged
CgminSwapped == <<"cr.rad", "gimin">>

\* operands of line 107: cgmin = gimin - data['cr'][cogoft][3]
CgminOperands == <<"gimin", "cr.rad">>

\* the operands of line 123 exchanged
CadminSwapped == <<"kmmin", "gi.rad">>

\* operands of line 123: cadmin = data['gi'][0][3] - kmmin
CadminOperands == <<"gi.rad", "kmmin">>

\* line 127 reading the other reference angle
CdPosWrongRef == <<"cadmin", "refpt">>

\* operands of line 127: d[4] = rad + cadmin + data['sprefpt']
CdPosOperands == <<"cadmin", "sprefpt">>

----------------------------------------------------------------------------
(* calculate() *)

main_vars == <<calls, k, files>>
ref_vars == <<cogoft, gearoft>>

\* row j of a series replaced
SetRad(axis, j, rad) == [data EXCEPT ![axis][j].rad = rad]
SetRadPos(axis, j, rad, pos) == [data EXCEPT ![axis][j].rad = rad, ![axis][j].pos = pos]

\* lines 22-37: calculate() is entered with a new dictionary
Call ==
    /\ pc = "call"
    /\ calls' = calls + 1
    /\ data' = FreshData(data)
    /\ i' = GiFirst
    /\ gimod' = None /\ gimin' = None /\ crmin' = None /\ cgmin' = None
    /\ cgmod' = None /\ kmmin' = None /\ cadmin' = None
    /\ produced' = {}
    /\ reads' = {}
    /\ pc' = "gi_gen"
    /\ UNCHANGED <<ref_vars, k, files, results>>

\* lines 36-47: Gear Inches (converts to gear ratio)
GiGen ==
    /\ pc = "gi_gen"
    /\ IF GiMore(i)
       THEN /\ data' = [data EXCEPT !.gi = Append(@, GiRow(i))]
            /\ i' = i + 1
            /\ pc' = pc
       ELSE /\ data' = data
            /\ i' = CrFirst
            /\ pc' = "cr_gen"
    /\ UNCHANGED <<locals, ref_vars, main_vars, results, produced, reads>>

\* lines 46-55: Chainring Teeth
CrGen ==
    /\ pc = "cr_gen"
    /\ IF CrMore(i)
       THEN /\ data' = [data EXCEPT !.cr = Append(@, TeethRow(i))]
            /\ i' = i + 1
            /\ pc' = pc
       ELSE /\ data' = data
            /\ i' = CgFirst
            /\ pc' = "cg_gen"
    /\ UNCHANGED <<locals, ref_vars, main_vars, results, produced, reads>>

\* lines 54-64: Cog Teeth
CgGen ==
    /\ pc = "cg_gen"
    /\ IF CgMore(i)
       THEN /\ data' = [data EXCEPT !.cg = Append(@, TeethRow(i))]
            /\ i' = i - 1
            /\ pc' = pc
       ELSE /\ data' = data
            /\ i' = KmFirst
            /\ pc' = "km_gen"
    /\ UNCHANGED <<locals, ref_vars, main_vars, results, produced, reads>>

\* lines 62-73: Speed in km/h converted to wheel speed in hertz
KmGen ==
    /\ pc = "km_gen"
    /\ IF KmMore(i)
       THEN /\ data' = [data EXCEPT !.km = Append(@, KmRow(i))]
            /\ i' = i + 1
            /\ pc' = pc
       ELSE /\ data' = data
            /\ i' = CdFirst
            /\ pc' = "cd_gen"
    /\ UNCHANGED <<locals, ref_vars, main_vars, results, produced, reads>>

\* lines 72-79: Cadence in rpm converted to hertz
CdGen ==
    /\ pc = "cd_gen"
    /\ IF CdMore(i)
       THEN /\ data' = [data EXCEPT !.cd = Append(@, CdRow(i))]
            /\ i' = i + 1
            /\ pc' = pc
       ELSE /\ data' = data
            /\ i' = 1
            /\ pc' = "gi_mod"
    /\ UNCHANGED <<locals, ref_vars, main_vars, results, produced, reads>>

\* line 84: girangerad = 0.82 * pi
girangerad == PiTimes(82, 100)

\* the raw range taken as min - max
girangerawReversed(girawmax, girawmin) == LogSub(girawmin, girawmax)

\* line 85: girangeraw = girawmax - girawmin
girangeraw(girawmax, girawmin) == LogSub(girawmax, girawmin)

\* lines 81-86: Use Gear inches to determine base axis scaling
GiMod ==
    /\ pc = "gi_mod"
    /\ LET girawmin == data.gi[1].lg
           girawmax == data.gi[Len(data.gi)].lg
       IN  gimod' = ModDiv(girangerad, girangeraw(girawmax, girawmin))
    /\ produced' = produced \cup {"gimod"}
    /\ i' = 1
    /\ pc' = "gi_scale"
    /\ UNCHANGED <<data, gimin, crmin, cgmin, cgmod, kmmin, cadmin,
                   ref_vars, main_vars, results, reads>>

\* lines 89-91: for g in data['gi']: g[3] = gimod * g[2]
GiScale ==
    /\ pc = "gi_scale"
    /\ IF i <= Len(data.gi)
       THEN /\ data' = SetRad("gi", i, Scale(Val("gimod"), data.gi[i].lg))
            /\ reads' = reads \cup Log("gi", {"gimod"})
            /\ i' = i + 1
            /\ pc' = pc
            /\ produced' = produced
       ELSE /\ data' = data
            /\ reads' = reads
            /\ i' = 1
            /\ pc' = "gi_min"
            /\ produced' = produced \cup {"gi.rad"}
    /\ UNCHANGED <<locals, ref_vars, main_vars, results>>

\* line 92: gimin = data['gi'][0][3]
GiMin ==
    /\ pc = "gi_min"
    /\ gimin' = Val("gi.rad")
    /\ reads' = reads \cup Log("gi", {"gi.rad"})
    /\ produced' = produced \cup {"gimin"}
    /\ i' = 1
    /\ pc' = "gi_place"
    /\ UNCHANGED <<data, gimod, crmin, cgmin, cgmod, kmmin, cadmin,
                   ref_vars, main_vars, results>>

\* an excluded value inside the generated domain
GiPlacedInDomain(g) == g.raw # 70

\* line 94: if g[0] != 60
GiPlaced(g) == g.raw # GiExcluded

\* lines 93-95: for g in data['gi']: if g[0] != 60: g[4] = g[3] - gimin
GiPlace ==
    /\ pc = "gi_place"
    /\ IF i <= Len(data.gi)
       THEN /\ data' = IF GiPlaced(data.gi[i])
                       THEN [data EXCEPT !.gi[i].pos = AngSub(data.gi[i].rad, Val("gimin"))]
                       ELSE data
            /\ reads' = reads \cup Log("gi", {"gimin"})
            /\ i' = i + 1
            /\ pc' = pc
            /\ produced' = produced
       ELSE /\ data' = data
            /\ reads' = reads
            /\ i' = 1
            /\ pc' = "cr_min"
            /\ produced' = produced \cup {"gi.pos"}
    /\ UNCHANGED <<locals, ref_vars, main_vars, results>>

\* line 98: crmin = 0.525 * pi
CrMin ==
    /\ pc = "cr_min"
    /\ crmin' = PiTimes(525, 1000)
    /\ produced' = produced \cup {"crmin"}
    /\ i' = 1
    /\ pc' = "cr_scale"
    /\ UNCHANGED <<data, gimod, gimin, cgmin, cgmod, kmmin, cadmin,
                   ref_vars, main_vars, results, reads>>

\* lines 99-102: for r in data['cr']: r[3] = gimod * r[2]; r[4] = rad - crmin
CrScale ==
    /\ pc = "cr_scale"
    /\ IF i <= Len(data.cr)
       THEN /\ LET rad == Scale(Val("gimod"), data.cr[i].lg)
               IN  data' = SetRadPos("cr", i, rad, AngSub(rad, Val("crmin")))
            /\ reads' = reads \cup Log("cr", {"gimod", "crmin"})
            /\ i' = i + 1
            /\ pc' = pc
            /\ produced' = produced
       ELSE /\ data' = data
            /\ reads' = reads
            /\ i' = 1
            /\ pc' = "cg_ref"
            /\ produced' = produced \cup {"cr.rad", "cr.pos"}
    /\ UNCHANGED <<locals, ref_vars, main_vars, results>>

\* the cog scale given the shared modulus unchanged
CogModulusSame(m) == m

\* line 108: cgmod = -1.0 * gimod
CogModulus(m) == ModNeg(m)

\* lines 104-108: COG is on inverted scale
CgRef ==
    /\ pc = "cg_ref"
    /\ data' = [data EXCEPT !.refpt = Val("cr.pos")]
    /\ cgmin' = AngSub(Val(CgminOperands[1]), Val(CgminOperands[2]))
    /\ cgmod' = CogModulus(Val("gimod"))
    /\ reads' = reads \cup Log("cr", {"cr.pos"})
                      \cup Log("cg", Range(CgminOperands) \cup {"gimod"})
    /\ produced' = produced \cup {"refpt", "cgmin", "cgmod"}
    /\ i' = 1
    /\ pc' = "cg_scale"
    /\ UNCHANGED <<gimod, gimin, crmin, kmmin, cadmin, ref_vars, main_vars, results>>

\* lines 109-112: for c in data['cg']: c[3] = cgmod * c[2]; c[4] = rad - cgmin
CgScale ==
    /\ pc = "cg_scale"
    /\ IF i <= Len(data.cg)
       THEN /\ LET rad == Scale(Val("cgmod"), data.cg[i].lg)
               IN  data' = SetRadPos("cg", i, rad, AngSub(rad, Val("cgmin")))
            /\ reads' = reads \cup Log("cg", {"cgmod", "cgmin"})
            /\ i' = i + 1
            /\ pc' = pc
            /\ produced' = produced
       ELSE /\ data' = data
            /\ reads' = reads
            /\ i' = 1
            /\ pc' = "km_ref"
            /\ produced' = produced \cup {"cg.rad", "cg.pos"}
    /\ UNCHANGED <<locals, ref_vars, main_vars, results>>

\* lines 114-117: Speed/cadence scales are referenced to log of gear ratio
KmRef ==
    /\ pc = "km_ref"
    /\ data' = [data EXCEPT !.sprefpt = Val("cg.pos")]
    /\ kmmin' = PiTimes(-32, 100)
    /\ reads' = reads \cup Log("cg", {"cg.pos"})
    /\ produced' = produced \cup {"sprefpt", "kmmin"}
    /\ i' = 1
    /\ pc' = "km_scale"
    /\ UNCHANGED <<gimod, gimin, crmin, cgmin, cgmod, cadmin, ref_vars, main_vars, results>>

\* lines 118-121: for k in data['km']: k[3] = gimod * k[2]; k[4] = rad - kmmin
KmScale ==
    /\ pc = "km_scale"
    /\ IF i <= Len(data.km)
       THEN /\ LET rad == Scale(Val("gimod"), data.km[i].lg)
               IN  data' = SetRadPos("km", i, rad, AngSub(rad, Val("kmmin")))
            /\ reads' = reads \cup Log("km", {"gimod", "kmmin"})
            /\ i' = i + 1
            /\ pc' = pc
            /\ produced' = produced
       ELSE /\ data' = data
            /\ reads' = reads
            /\ i' = 1
            /\ pc' = "cad_min"
            /\ produced' = produced \cup {"km.rad", "km.pos"}
    /\ UNCHANGED <<locals, ref_vars, main_vars, results>>

\* line 123: cadmin = data['gi'][0][3] - kmmin
CadMin ==
    /\ pc = "cad_min"
    /\ cadmin' = AngSub(Val(CadminOperands[1]), Val(CadminOperands[2]))
    /\ reads' = reads \cup Log("cd", Range(CadminOperands))
    /\ produced' = produced \cup {"cadmin"}
    /\ i' = 1
    /\ pc' = "cd_scale"
    /\ UNCHANGED <<data, gimod, gimin, crmin, cgmin, cgmod, kmmin,
                   ref_vars, main_vars, results>>

\* lines 124-127: for d in data['cd']: d[3] = gimod * d[2];
\*                d[4] = rad + cadmin + data['sprefpt']
CdScale ==
    /\ pc = "cd_scale"
    /\ IF i <= Len(data.cd)
       THEN /\ LET rad == Scale(Val("gimod"), data.cd[i].lg)
               IN  data' = SetRadPos("cd", i, rad,
                               AngAdd(AngAdd(rad, Val(CdPosOperands[1])),
                                      Val(CdPosOperands[2])))
            /\ reads' = reads \cup Log("cd", {"gimod"} \cup Range(CdPosOperands))
            /\ i' = i + 1
            /\ pc' = pc
            /\ produced' = produced
       ELSE /\ data' = data
            /\ reads' = reads
            /\ i' = 1
            /\ pc' = "return"
            /\ produced' = produced \cup {"cd.rad", "cd.pos"}
    /\ UNCHANGED <<locals, ref_vars, main_vars, results>>

\* line 129: return data
Return ==
    /\ pc = "return"
    /\ results' = Append(results, data)
    /\ pc' = "main"
    /\ UNCHANGED <<i, data, locals, ref_vars, main_vars, produced, reads>>

Calculate ==
    \/ Call \/ GiGen \/ CrGen \/ CgGen \/ KmGen \/ CdGen
    \/ GiMod \/ GiScale \/ GiMin \/ GiPlace
    \/ CrMin \/ CrScale \/ CgRef \/ CgScale
    \/ KmRef \/ KmScale \/ CadMin \/ CdScale \/ Return

----------------------------------------------------------------------------
(* Rendering: drawpage(), output_layers() and the main program *)

\* lengths are in thousandths of the unit disc, angles as above
Arc(r, a1, a2) == [op |-> "arc", r |-> r, a1 |-> a1, a2 |-> a2]

\* scalemark(c, a, x1, x2, lbl, right); a label is <<number, suffix>>,
\* <<text>> or <<>> for ''
Mark(a, x1, x2, lbl, right) ==
    [op |-> "mark", a |-> a, x1 |-> x1, x2 |-> x2, lbl |-> lbl, right |-> right]

\* coverbox(c, a, x1, x2)
Box(a, x1, x2) == [op |-> "box", a |-> a, x1 |-> x1, x2 |-> x2]

FullTurn == PiTimes(2, 1)

\* lines 166-247: the drawing operations of drawpage(c, layers, data)
drawpage(layers, d) ==
    LET \* the marks of a for loop over `rows`, f(row) the mark of one row
        Marks(rows, f(_)) == [j \in 1 .. Len(rows) |-> f(rows[j])]
        gimark(g) == IF g.raw % 2 = 0
                     THEN Mark(g.pos, 400, 420, <<g.raw, "\"">>, FALSE)
                     ELSE Mark(g.pos, 400, 410, <<>>, FALSE)
        crmark(r) == Mark(r.pos, 400, 420, <<r.raw, "t">>, FALSE)
        cgmark(g) == Mark(g.pos, 386, 360, <<g.raw, "t">>, TRUE)
        cdmark(c) == IF c.raw % 5 = 0
                     THEN Mark(c.pos, 386, 360, <<c.raw, "">>, TRUE)
                     ELSE Mark(c.pos, 386, 373, <<>>, FALSE)
        kmmark(m) == IF m.raw % 5 = 0
                     THEN Mark(m.pos, 400, 420, <<m.raw, "">>, FALSE)
                     ELSE Mark(m.pos, 400, 410, <<>>, FALSE)
        last(s) == s[Len(s)]
    IN  (IF 2 \in layers THEN <<Arc(393, Zero, FullTurn)>> ELSE <<>>)
        \o (IF 1 \in layers \/ 3 \in layers THEN <<Arc(490, Zero, FullTurn)>> ELSE <<>>)
        \o <<Arc(10, Zero, FullTurn)>>
        \o (IF 3 \in layers
            THEN <<Arc(400, d.gi[1].pos, last(d.gi).pos)>> \o Marks(d.gi, gimark)
                 \o <<Arc(400, d.cr[1].pos, last(d.cr).pos)>> \o Marks(d.cr, crmark)
            ELSE <<>>)
        \o (IF 2 \in layers
            THEN <<Arc(386, d.cg[1].pos, last(d.cg).pos),
                   Mark(d.refpt, 386, 360, <<"CR">>, TRUE)>> \o Marks(d.cg, cgmark)
            ELSE <<>>)
        \o (IF 1 \in layers
            THEN <<Mark(d.sprefpt, 310, 280, <<"GR">>, TRUE), Box(d.sprefpt, 310, 480),
                   Arc(386, d.cd[1].pos, last(d.cd).pos)>> \o Marks(d.cd, cdmark)
            ELSE <<>>)
        \o (IF 3 \in layers
            THEN <<Arc(400, d.km[1].pos, last(d.km).pos)>> \o Marks(d.km, kmmark)
            ELSE <<>>)

\* lines 272-279: the four variants, in the order they are written
Variants ==
    << [file |-> "gcswheel_combined.pdf", layers |-> {1, 2, 3}],
       [file |-> "gcswheel_base.pdf", layers |-> {3}],
       [file |-> "gcswheel_middle.pdf", layers |-> {2}],
       [file |-> "gcswheel_top.pdf", layers |-> {1}] >>

\* the result computed again for each variant
AfterOutputRecompute(n) == IF n < Len(Variants) THEN "call" ELSE "done"

\* where the main program continues after writing variant n
AfterOutput(n) == IF n < Len(Variants) THEN "main" ELSE "done"

\* lines 250-262, 272-279: output_layers(f, layers, data) for the next variant
Output ==
    /\ pc = "main"
    /\ k <= Len(Variants)
    /\ files' = Append(files, [file |-> Variants[k].file, layers |-> Variants[k].layers,
                               page |-> drawpage(Variants[k].layers, data)])
    /\ k' = k + 1
    /\ pc' = AfterOutput(k)
    /\ UNCHANGED <<i, data, locals, ref_vars, calls, results, produced, reads>>

\* a caller invoking calculate() again
MaxRuns == 2

Again ==
    /\ pc = "main"
    /\ calls < MaxRuns
    /\ pc' = "call"
    /\ UNCHANGED <<i, data, locals, ref_vars, main_vars, results, produced, reads>>

----------------------------------------------------------------------------
(* Specifications *)

InitWith(c, g) ==
    /\ pc = "call"
    /\ i = 0
    /\ data = EmptyData
    /\ gimod = None /\ gimin = None /\ crmin = None /\ cgmin = None
    /\ cgmod = None /\ kmmin = None /\ cadmin = None
    /\ cogoft = c
    /\ gearoft = g
    /\ calls = 0
    /\ k = 1
    /\ files = <<>>
    /\ results = <<>>
    /\ produced = {}
    /\ reads = {}

\* the program as written: cogoft = 5, gearoft = 3
Init == InitWith(COGOFT, GEAROFT)

\* the main program: lines 270-279
Next == Calculate \/ Output

Spec == Init /\ [][Next]_vars

\* calculate() invoked MaxRuns times by one caller
NextRerun == Calculate \/ Again

SpecRerun == Init /\ [][NextRerun]_vars

\* the program with any choice of the two reference indices
InitRef ==
    \E c \in 0 .. (CrLast - CrFirst) : \E g \in 0 .. (CgFirst - CgLast) : InitWith(c, g)

SpecRef == InitRef /\ [][Next]_vars

----------------------------------------------------------------------------
(* Properties *)

RECURSIVE NumPow(_, _)
NumPow(x, e) ==
    IF e = 0 THEN Num(1, 1)
    ELSE IF e < 0 THEN NumPow(Num(x.d, x.n), 0 - e)
    ELSE NumMul(x, NumPow(x, e - 1))

\* Equality of two angles as real numbers:
\*   M*ln(qa) + ka*u = M*ln(qb) + kb*u   with M = span*u/ln(base), u = pi/1000
\*   iff  (qa/qb)^span = base^(kb - ka).
\* base = 28/17 is no perfect power, so this needs span | kb - ka.
AngEq(a, b) ==
    LET r == Num(a.n * b.d, a.d * b.n)
        m == ModOf(a, b)
        dk == b.k - a.k
    IN  IF r.n = r.d THEN dk = 0
        ELSE /\ a.m \in {NoMod, m}
             /\ b.m \in {NoMod, m}
             /\ m.span # 0
             /\ dk % (IF m.span > 0 THEN m.span ELSE 0 - m.span) = 0
             /\ r = NumPow(Num(m.bn, m.bd), dk \div m.span)

\* a < b for two angles with the same offset (the modulus of an angle is positive)
AngLess(a, b) == a.k = b.k /\ a.n * b.d < b.n * a.d

\* calculate() has returned its result to the caller
Returned == pc \in {"main", "done"}

\* the rows of a series whose raw value is v
RowsOf(series, v) == {j \in DOMAIN series : series[j].raw = v}

Raws(series) == [j \in DOMAIN series |-> series[j].raw]

\* position of the cog mark c after the middle disc is turned so that its
\* 'CR' mark (refpt) sits on chainring mark r
CogAt(r, c) == AngAdd(data.cg[c].pos, AngSub(data.cr[r].pos, data.refpt))

\* position of the cadence mark d after, in addition, the top disc is turned
\* so that its 'GR' mark (sprefpt) sits on that cog mark
CadenceAt(r, c, d) == AngAdd(data.cd[d].pos, AngSub(CogAt(r, c), data.sprefpt))

\* the angle the Speed scale gives to a speed v (a rational, in km/h)
SpeedAngle(v) == AngSub(Scale(gimod, log(NumDiv(v, KmDiv))), PiTimes(-32, 100))

\* C1: with the middle disc turned so that 'CR' sits on chainring cr, the
\* mark of cog cg lands at modulus*ln(cr/cg) - zeroAngle, for every cr in
\* 42..52 and cg in 12..18; and where 27*cr/cg is a value of the GearInches
\* scale it lands on that value's mark.
C1_GearInches ==
    Returned =>
        \A cr \in 42 .. 52 : \A cg \in 12 .. 18 :
            /\ RowsOf(data.cr, cr) # {}
            /\ RowsOf(data.cg, cg) # {}
            /\ \A r \in RowsOf(data.cr, cr) : \A c \in RowsOf(data.cg, cg) :
                   /\ AngEq(CogAt(r, c),
                            AngSub(Scale(gimod, log(Num(cr, cg))), data.gi[1].rad))
                   /\ \A g \in DOMAIN data.gi :
                          data.gi[g].raw * cg = 27 * cr => AngEq(CogAt(r, c), data.gi[g].pos)

\* 48/18: the 18t mark lands on the 72" mark once CR is turned from 47t to 48t
C1_Witness ==
    /\ pc = "main"
    /\ data.cr[7].raw = 48 /\ data.cg[1].raw = 18 /\ data.gi[5].raw = 72
    /\ ~AngEq(data.cr[7].pos, data.refpt)
    /\ AngEq(CogAt(7, 1), data.gi[5].pos)

\* C2: with 'CR' on chainring cr and 'GR' on cog cg, the cadence mark cd
\* lands at modulus*ln((cd/60)*(cr/cg)) + 0.32*pi, the angle of the Speed
\* scale for 3.6*rollout*(cd/60)*(cr/cg) km/h, whatever the two reference
\* indices are.
C2_SpeedCadence ==
    (pc = "main" /\ files = <<>>) =>
        /\ \A j \in DOMAIN data.km :
               data.km[j].pos = SpeedAngle(Num(data.km[j].raw, 1))
        /\ Range(Raws(data.cr)) = 42 .. 52
        /\ Range(Raws(data.cg)) = 12 .. 18
        /\ Range(Raws(data.cd)) = 80 .. 150
        /\ \A r \in DOMAIN data.cr : \A c \in DOMAIN data.cg : \A d \in DOMAIN data.cd :
               LET ratio == NumMul(Num(data.cd[d].raw, 60),
                                   Num(data.cr[r].raw, data.cg[c].raw))
                   kmh == NumMul(NumMul(Num(36, 10), Num(2090, 1000)), ratio)
               IN  /\ AngEq(CadenceAt(r, c, d),
                            AngAdd(Scale(gimod, log(ratio)), PiTimes(32, 100)))
                   /\ AngEq(CadenceAt(r, c, d), SpeedAngle(kmh))

\* other reference indices than 5 and 3, both discs turned
C2_Witness ==
    /\ pc = "main"
    /\ cogoft = 0 /\ gearoft = 6
    /\ data.cr[11].raw = 52 /\ data.cg[2].raw = 17 /\ data.cd[71].raw = 150
    /\ ~AngEq(data.cr[11].pos, data.refpt)
    /\ ~AngEq(CogAt(11, 2), data.sprefpt)
    /\ AngEq(CadenceAt(11, 2, 71),
             AngAdd(Scale(gimod, log(NumMul(Num(150, 60), Num(52, 17)))), PiTimes(32, 100)))

\* the generation loops are over
Generated == pc \notin {"call", "gi_gen", "cr_gen", "cg_gen", "km_gen", "cd_gen"}

\* C3: once generated, and up to the end of the run, the five series hold
\* the raw values 68..112, 42..52, 18 down to 12, 35..55 and 80..150, in
\* that order, and the result holds no other series.
C3_Domains ==
    Generated =>
        /\ Raws(data.gi) = [j \in 1 .. 45 |-> 67 + j]
        /\ Raws(data.cr) = [j \in 1 .. 11 |-> 41 + j]
        /\ Raws(data.cg) = <<18, 17, 16, 15, 14, 13, 12>>
        /\ Raws(data.km) = [j \in 1 .. 21 |-> 34 + j]
        /\ Raws(data.cd) = [j \in 1 .. 71 |-> 79 + j]
        /\ DOMAIN data = {"gi", "cr", "cg", "km", "cd", "refpt", "sprefpt"}

C3_Witness ==
    /\ pc = "done"
    /\ Len(data.gi) = 45 /\ Len(data.cd) = 71
    /\ data.cd[71].pos # Zero

\* C4: refpt is the finalAngle of chainring entry 5 (47t) and sprefpt is the
\* finalAngle of cog entry 3 (15t), each read after the entry was placed.
C4_References ==
    Returned =>
        /\ data.cr[6].raw = 47
        /\ data.refpt = data.cr[6].pos
        /\ data.cr[6].pos = AngSub(Scale(gimod, log(Num(47, 1))), PiTimes(525, 1000))
        /\ data.cg[4].raw = 15
        /\ data.sprefpt = data.cg[4].pos
        /\ data.cg[4].pos # Zero
        /\ data.cg[4].pos = AngSub(data.cg[4].rad, cgmin)
        /\ \A e \in reads : e.src \in {"cr.pos", "cg.pos"} => e.ready
        /\ \E e \in reads : e.src = "cr.pos"
        /\ \E e \in reads : e.src = "cg.pos"

C4_Witness ==
    /\ pc = "main"
    /\ data.refpt # Zero /\ data.refpt # None
    /\ data.sprefpt # Zero /\ data.sprefpt # None

\* C5: GearInches 68 is placed at 0.0 and 112 at 0.82*pi:
\* modulus * (ln(112/27) - ln(68/27)) = 0.82*pi.
C5_Span ==
    Returned =>
        /\ data.gi[1].raw = 68
        /\ data.gi[1].pos = Zero
        /\ data.gi[45].raw = 112
        /\ AngEq(data.gi[45].pos, PiTimes(82, 100))
        /\ AngEq(AngSub(Scale(gimod, log(Num(112, 27))), Scale(gimod, log(Num(68, 27)))),
                 PiTimes(82, 100))

C5_Witness ==
    /\ pc = "main"
    /\ AngEq(data.gi[45].pos, PiTimes(82, 100))
    /\ data.gi[45].pos # Zero

Increasing(series) ==
    \A a, b \in DOMAIN series :
        series[a].raw < series[b].raw => AngLess(series[a].pos, series[b].pos)

Decreasing(series) ==
    \A a, b \in DOMAIN series :
        series[a].raw < series[b].raw => AngLess(series[b].pos, series[a].pos)

\* the modulus every scaledAngle of the series was computed with
SameModulus(series, m) == \A j \in DOMAIN series : series[j].rad.m = m

\* C6: finalAngle falls with raw on the CogTeeth scale, which uses the
\* negated modulus, and rises with raw on the four other scales; all five
\* use one modulus magnitude.
C6_Direction ==
    Returned =>
        /\ gimod.span > 0
        /\ cgmod = ModNeg(gimod)
        /\ Decreasing(data.cg)
        /\ Increasing(data.gi) /\ Increasing(data.cr)
        /\ Increasing(data.km) /\ Increasing(data.cd)
        /\ SameModulus(data.gi, gimod) /\ SameModulus(data.cr, gimod)
        /\ SameModulus(data.cg, gimod) /\ SameModulus(data.km, gimod)
        /\ SameModulus(data.cd, gimod)

C6_Witness ==
    /\ pc = "main"
    /\ data.cg[1].raw = 18 /\ data.cg[7].raw = 12
    /\ AngLess(data.cg[1].pos, data.cg[7].pos)
    /\ AngLess(data.cr[1].pos, data.cr[11].pos)

\* C7: calculate() runs once, before any variant is written; while the four
\* variants are written the result stays what calculate() returned, and
\* every file is the drawing of that result.
C7_ReadOnly ==
    /\ files # <<>> => Returned
    /\ Returned =>
        /\ calls = 1
        /\ results = <<data>>
        /\ \A f \in DOMAIN files :
               /\ files[f].layers = Variants[f].layers
               /\ files[f].page = drawpage(files[f].layers, results[1])
    /\ pc = "done" => Len(files) = 4

C7_Witness ==
    /\ pc = "done"
    /\ Len(files) = 4
    /\ files[4].layers = {1}
    /\ results = <<data>>

\* C8: every invocation of calculate() starts from an empty dictionary and
\* returns a result equal to that of every other invocation.
C8_Deterministic ==
    /\ (pc = "gi_gen" /\ i = GiFirst) => (data = EmptyData /\ produced = {} /\ reads = {})
    /\ pc = "main" =>
           /\ Len(results) = calls
           /\ \A r \in DOMAIN results : results[r] = data

C8_Witness ==
    /\ pc = "main"
    /\ Len(results) = MaxRuns
    /\ results[1] = results[MaxRuns]
    /\ Len(results[1].cd) = 71

\* a read of a value that belongs to another axis than the one computed
CrossAxis(e) == Owner(e.src) \notin {e.axis, "shared"}

\* C9 as stated: apart from the modulus, only the two reference angles are
\* read across axes, and only once produced.
C9_OnlyReferences ==
    \A e \in reads : e.ready /\ (CrossAxis(e) => e.src \in {"refpt", "sprefpt"})

\* C9, amended: the values read across axes are the GearInches zero angle
\* and the scaledAngle of the reference chainring (by the cog offset), the
\* GearInches zero angle and the speed offset (by the cadence offset) and
\* sp_reference_angle (by the cadence scale); refpt is not read again; every
\* value is read only once produced.
C9_CrossAxisReads ==
    \A e \in reads :
        /\ e.ready
        /\ e.src # "refpt"
        /\ CrossAxis(e) =>
               <<e.axis, e.src>> \in {<<"cg", "gimin">>, <<"cg", "cr.rad">>,
                                      <<"cd", "gi.rad">>, <<"cd", "kmmin">>,
                                      <<"cd", "sprefpt">>}

C9_Witness ==
    /\ pc = "main"
    /\ {<<e.axis, e.src>> : e \in {x \in reads : CrossAxis(x)}}
           = {<<"cg", "gimin">>, <<"cg", "cr.rad">>, <<"cd", "gi.rad">>,
              <<"cd", "kmmin">>, <<"cd", "sprefpt">>}

Placed(series) == \A j \in DOMAIN series :
    /\ series[j].rad # None
    /\ series[j].rad # Zero
    /\ series[j].pos # None

\* C10: no GearInches entry has raw 60; each of the 45 has
\* finalAngle = scaledAngle - zeroAngle; no entry of any series keeps a
\* placeholder.
C10_NoExclusion ==
    Returned =>
        /\ Len(data.gi) = 45
        /\ data.gi[1].raw = 68
        /\ \A j \in DOMAIN data.gi :
               /\ data.gi[j].raw # 60
               /\ data.gi[j].rad = Scale(gimod, data.gi[j].lg)
               /\ data.gi[j].pos = AngSub(data.gi[j].rad, data.gi[1].rad)
        /\ Placed(data.gi) /\ Placed(data.cr) /\ Placed(data.cg)
        /\ Placed(data.km) /\ Placed(data.cd)
        /\ \A j \in DOMAIN data.cr : data.cr[j].pos = AngSub(data.cr[j].rad, crmin)
        /\ \A j \in DOMAIN data.cg : data.cg[j].pos = AngSub(data.cg[j].rad, cgmin)
        /\ \A j \in DOMAIN data.km : data.km[j].pos = AngSub(data.km[j].rad, kmmin)
        /\ \A j \in DOMAIN data.cd :
               data.cd[j].pos = AngAdd(AngAdd(data.cd[j].rad, cadmin), data.sprefpt)
        /\ \A j \in (DOMAIN data.gi) \ {1} : data.gi[j].pos # Zero
        /\ \A s \in {"cr", "cg", "km", "cd"} : \A j \in DOMAIN data[s] : data[s][j].pos # Zero

C10_Witness ==
    /\ pc = "main"
    /\ RowsOf(data.gi, 60) = {}
    /\ data.gi[45].pos = AngSub(data.gi[45].rad, gimin)
    /\ data.gi[45].pos # Zero

====
